---- MODULE Spec2Model ----
(***************************************************************************)
(* Model of src/Pacman.py: the grid, the runners (Player), the hunters     *)
(* (Ghost), the A* search, the path refresh, the per-tick loop of main and *)
(* the capture test.                                                       *)
(*                                                                         *)
(* Coordinates.  A position is a pair <<x, y>> of fixed-point numbers with *)
(* Scale units per grid cell (the code uses Python floats).  A cell is a   *)
(* pair <<x, y>> of integers; the grid is indexed grid[y][x] as in the     *)
(* code.  Products of two fixed-point numbers are rounded to the nearest   *)
(* unit.                                                                   *)
(***************************************************************************)
EXTENDS Integers, Sequences, FiniteSets, TLC

VARIABLES grid, players, ghosts, loser, ticks, probe

vars == <<grid, players, ghosts, loser, ticks, probe>>

(***************************************************************************)
(* Bounds of the model.                                                    *)
(***************************************************************************)
\* side of the square grid (GRID_SIZE = 20 in the code, scaled down here)
GRID_SIZE == 5
\* largest number of inner Wall cells of a layout
MaxInnerWalls == 1
\* largest number of ticks of a round
MaxTicks == 2
\* largest number of Ghost.move calls along one path
MaxCalls == 23

(***************************************************************************)
(* Program constants.                                                      *)
(***************************************************************************)
Scale == 1000
\* Player.speed = 0.5
PlayerSpeed == 500
\* Ghost.speed = 0.1
GhostSpeed == 100
\* waypoint tolerance 0.1 of Ghost.move
ArriveTol == 100
\* collision distance 0.5 of check_collision
CaptureDist == 500
\* score of a pellet
Reward == 10

Open == 0
Wall == 1
Pellet == 2

None == <<>>
NoLoser == "None"

DIRECTIONS ==
    [UP |-> <<0, 1>>, DOWN |-> <<0, -1>>, LEFT |-> <<1, 0>>, RIGHT |-> <<-1, 0>>]

DirNames == {"UP", "DOWN", "LEFT", "RIGHT"}

(***************************************************************************)
(* Arithmetic of Python on the fixed-point representation.                 *)
(***************************************************************************)
Abs(v) == IF v < 0 THEN -v ELSE v

\* float product a * b of two fixed-point numbers, to the nearest unit
MulFP(a, b) ==
    LET p == a * b
    IN  IF p >= 0 THEN (2 * p + Scale) \div (2 * Scale)
                  ELSE -((2 * (-p) + Scale) \div (2 * Scale))

\* rounding with a tie going up
RoundHalfUp(v) == (2 * v + Scale) \div (2 * Scale)

\* Python 3 round(v) of a float: nearest integer, a tie goes to the even one
Round(v) ==
    LET q == v \div Scale
        r == v % Scale
    IN  IF 2 * r < Scale THEN q
        ELSE IF 2 * r > Scale THEN q + 1
        ELSE IF q % 2 = 0 THEN q ELSE q + 1

\* Python int(v) of a float: truncation toward zero
Trunc(v) == IF v >= 0 THEN v \div Scale ELSE -((-v) \div Scale)

\* an integer coordinate as a position coordinate
ToFP(k) == k * Scale

CellPos(c) == <<ToFP(c[1]), ToFP(c[2])>>

Idx == 0 .. (GRID_SIZE - 1)

Cells == {<<x, y>> : x \in Idx, y \in Idx}

(***************************************************************************)
(* PriorityQueue: a heap of (priority, item) tuples.  heappop returns the  *)
(* least tuple: least priority, then least item (x, then y).  An entry is  *)
(* <<priority, item, n>>, n being the number of earlier insertions, which  *)
(* the order does not use.                                                 *)
(***************************************************************************)
CellLess(a, b) == a[1] < b[1] \/ (a[1] = b[1] /\ a[2] < b[2])

EntryLess(e, f) ==
    \/ e[1] < f[1]
    \/ e[1] = f[1] /\ CellLess(e[2], f[2])
    \/ e[1] = f[1] /\ e[2] = f[2] /\ e[3] < f[3]

PQPut(elements, item, priority, n) == elements \cup {<<priority, item, n>>}

\* a heap that takes, among the entries of least priority, the one inserted first
PQMinFifo(elements) ==
    CHOOSE e \in elements :
        \A f \in elements : e[1] < f[1] \/ (e[1] = f[1] /\ e[3] <= f[3])

PQMin(elements) == CHOOSE e \in elements : \A f \in elements : f = e \/ EntryLess(e, f)

(***************************************************************************)
(* Pathfinding.                                                            *)
(***************************************************************************)
heuristic(a, b) == Abs(a[1] - b[1]) + Abs(a[2] - b[2])

NeighborOffsets == <<<<0, 1>>, <<1, 0>>, <<0, -1>>, <<-1, 0>>>>

\* get_neighbors without the test of the Wall
get_neighbors_any(pos, g) ==
    LET cand == [i \in 1 .. 4 |-> <<pos[1] + NeighborOffsets[i][1],
                                    pos[2] + NeighborOffsets[i][2]>>]
        ok(c) == /\ 0 <= c[1] /\ c[1] < GRID_SIZE
                 /\ 0 <= c[2] /\ c[2] < GRID_SIZE
    IN  SelectSeq(cand, ok)

get_neighbors(pos, g) ==
    LET cand == [i \in 1 .. 4 |-> <<pos[1] + NeighborOffsets[i][1],
                                    pos[2] + NeighborOffsets[i][2]>>]
        ok(c) == /\ 0 <= c[1] /\ c[1] < GRID_SIZE
                 /\ 0 <= c[2] /\ c[2] < GRID_SIZE
                 /\ g[c[2]][c[1]] # Wall
    IN  SelectSeq(cand, ok)

\* came_from.get(c)
Get(came_from, c) == IF c \in DOMAIN came_from THEN came_from[c] ELSE None

\* the for loop over the neighbours of current (lines 156-162); st is the
\* search state [frontier, came_from, cost_so_far, n]
RECURSIVE Relax(_, _, _, _, _)
Relax(st, current, goal, nbrs, i) ==
    IF i > Len(nbrs) THEN st
    ELSE LET next_pos == nbrs[i]
             new_cost == st.cost_so_far[current] + 1
         IN  IF next_pos \notin DOMAIN st.cost_so_far
                \/ new_cost < st.cost_so_far[next_pos]
             THEN Relax([st EXCEPT
                           !.cost_so_far = (next_pos :> new_cost) @@ @,
                           !.frontier = PQPut(@, next_pos,
                                              new_cost + heuristic(goal, next_pos),
                                              st.n),
                           !.came_from = (next_pos :> current) @@ @,
                           !.n = @ + 1],
                        current, goal, nbrs, i + 1)
             ELSE Relax(st, current, goal, nbrs, i + 1)

\* the while loop over the frontier (lines 150-162); pops records every
\* entry taken from the frontier with the frontier it was taken from
RECURSIVE SearchLoop(_, _, _)
SearchLoop(st, goal, g) ==
    IF st.frontier = {} THEN st
    ELSE LET e == PQMin(st.frontier)
             current == e[2]
             popped == [st EXCEPT !.frontier = @ \ {e},
                                  !.pops = Append(@, [entry |-> e, from |-> st.frontier])]
         IN  IF current = goal THEN popped
             ELSE SearchLoop(Relax(popped, current, goal, get_neighbors(current, g), 1),
                             goal, g)

\* the reconstruction loop (lines 165-172), before the reverse
RECURSIVE Reconstruct(_, _, _, _)
Reconstruct(came_from, start, current, path) ==
    IF current = start THEN path
    ELSE LET prev == Get(came_from, current)
         IN  IF prev = None THEN Append(path, current)
             ELSE Reconstruct(came_from, start, prev, Append(path, current))

Reverse(s) == [i \in 1 .. Len(s) |-> s[Len(s) + 1 - i]]

\* a_star_search with its local variables at the return
AStarRun(start_pos, goal_pos, g) ==
    LET start == <<Round(start_pos[1]), Round(start_pos[2])>>
        goal == <<Round(goal_pos[1]), Round(goal_pos[2])>>
        st0 == [frontier |-> {<<0, start, 0>>},
                came_from |-> (start :> None),
                cost_so_far |-> (start :> 0),
                n |-> 1,
                pops |-> <<>>]
        st == SearchLoop(st0, goal, g)
    IN  [start |-> start, goal |-> goal,
         came_from |-> st.came_from, pops |-> st.pops,
         path |-> Reverse(Reconstruct(st.came_from, start, goal, <<>>))]

a_star_search(start_pos, goal_pos, g) == AStarRun(start_pos, goal_pos, g).path

\* a nearest player that takes the last one of several at the least distance
ClosestLast(ghost, ps) ==
    LET d(i) == heuristic(ghost.position, ps[i].position)
    IN  CHOOSE i \in 1 .. Len(ps) :
            /\ \A j \in 1 .. Len(ps) : d(i) <= d(j)
            /\ \A j \in (i + 1) .. Len(ps) : d(j) > d(i)

\* min(players, key = distance): the first player at the least distance
Closest(ghost, ps) ==
    LET d(i) == heuristic(ghost.position, ps[i].position)
    IN  CHOOSE i \in 1 .. Len(ps) :
            /\ \A j \in 1 .. Len(ps) : d(i) <= d(j)
            /\ \A j \in 1 .. (i - 1) : d(j) > d(i)

sync_paths(ps, gs, g) ==
    [k \in 1 .. Len(gs) |->
        [gs[k] EXCEPT !.path = a_star_search(gs[k].position,
                                             ps[Closest(gs[k], ps)].position, g)]]

(***************************************************************************)
(* Player.                                                                 *)
(***************************************************************************)
Player(name, x, y) ==
    [name |-> name, position |-> <<ToFP(x), ToFP(y)>>,
     direction |-> DIRECTIONS.RIGHT, score |-> 0]

is_valid_move(x, y, g) ==
    /\ 0 <= x /\ x < ToFP(GRID_SIZE)
    /\ 0 <= y /\ y < ToFP(GRID_SIZE)
    /\ g[Trunc(y)][Trunc(x)] # Wall

\* collect_pellet that rewards every cell that is not a Wall
collect_pellet_any(player, g) ==
    LET x == Round(player.position[1])
        y == Round(player.position[2])
    IN  IF g[y][x] # Wall
        THEN [player |-> [player EXCEPT !.score = @ + Reward],
              grid |-> [g EXCEPT ![y][x] = Open]]
        ELSE [player |-> player, grid |-> g]

\* collect_pellet that rewards a pellet and leaves it on the grid
collect_pellet_keep(player, g) ==
    LET x == Round(player.position[1])
        y == Round(player.position[2])
    IN  IF g[y][x] = Pellet
        THEN [player |-> [player EXCEPT !.score = @ + Reward], grid |-> g]
        ELSE [player |-> player, grid |-> g]

\* collect_pellet on the pair [player, grid]
collect_pellet(player, g) ==
    LET x == Round(player.position[1])
        y == Round(player.position[2])
    IN  IF g[y][x] = Pellet
        THEN [player |-> [player EXCEPT !.score = @ + Reward],
              grid |-> [g EXCEPT ![y][x] = Open]]
        ELSE [player |-> player, grid |-> g]

\* the candidate position of Player.move
Candidate(player) ==
    <<player.position[1] + player.direction[1] * PlayerSpeed,
      player.position[2] + player.direction[2] * PlayerSpeed>>

\* Player.move on the pair [player, grid]
PlayerMove(player, g) ==
    LET new == Candidate(player)
    IN  IF is_valid_move(new[1], new[2], g)
        THEN collect_pellet([player EXCEPT !.position = new], g)
        ELSE [player |-> player, grid |-> g]

\* for player in players: player.move(grid)  (lines 373-374)
RECURSIVE MovePlayers(_, _, _)
MovePlayers(ps, g, i) ==
    IF i > Len(ps) THEN [players |-> ps, grid |-> g]
    ELSE LET r == PlayerMove(ps[i], g)
         IN  MovePlayers([ps EXCEPT ![i] = r.player], r.grid, i + 1)

(***************************************************************************)
(* Ghost.                                                                  *)
(***************************************************************************)
Ghost(x, y) == [position |-> <<ToFP(x), ToFP(y)>>, path |-> <<>>]

GhostMove(ghost) ==
    IF ghost.path = <<>> THEN ghost
    ELSE LET next_pos == CellPos(Head(ghost.path))
             dx == next_pos[1] - ghost.position[1]
             dy == next_pos[2] - ghost.position[2]
             moved == <<ghost.position[1] + MulFP(GhostSpeed, dx),
                        ghost.position[2] + MulFP(GhostSpeed, dy)>>
         IN  IF /\ Abs(moved[1] - next_pos[1]) < ArriveTol
                /\ Abs(moved[2] - next_pos[2]) < ArriveTol
             THEN [position |-> next_pos, path |-> Tail(ghost.path)]
             ELSE [ghost EXCEPT !.position = moved]

\* for ghost in ghosts: ghost.move(grid)  (lines 378-379)
MoveGhosts(gs) == [k \in 1 .. Len(gs) |-> GhostMove(gs[k])]

(***************************************************************************)
(* Capture.                                                                *)
(***************************************************************************)
\* a capture test that takes the distance 0.5 too
NearOrAt(p, q) ==
    (p[1] - q[1]) * (p[1] - q[1]) + (p[2] - q[2]) * (p[2] - q[2])
        <= CaptureDist * CaptureDist

\* math.dist(p, q) < 0.5, on the squares
Near(p, q) ==
    (p[1] - q[1]) * (p[1] - q[1]) + (p[2] - q[2]) * (p[2] - q[2])
        < CaptureDist * CaptureDist

check_collision(ps, gs) ==
    IF \E i \in 1 .. Len(ps) : \E k \in 1 .. Len(gs) : Near(ps[i].position, gs[k].position)
    THEN LET i == CHOOSE i \in 1 .. Len(ps) :
                    /\ \E k \in 1 .. Len(gs) : Near(ps[i].position, gs[k].position)
                    /\ \A j \in 1 .. (i - 1) :
                          \A k \in 1 .. Len(gs) : ~Near(ps[j].position, gs[k].position)
         IN  ps[i].name
    ELSE NoLoser

(***************************************************************************)
(* create_grid: Wall on the border, the inner walls, a pellet on every     *)
(* other cell.                                                             *)
(***************************************************************************)
Border(c) == c[1] = 0 \/ c[2] = 0 \/ c[1] = GRID_SIZE - 1 \/ c[2] = GRID_SIZE - 1

Interior == {c \in Cells : ~Border(c)}

create_grid(inner) ==
    [y \in Idx |-> [x \in Idx |->
        IF Border(<<x, y>>) \/ <<x, y>> \in inner THEN Wall ELSE Pellet]]

InnerWalls == {w \in SUBSET Interior : Cardinality(w) <= MaxInnerWalls}

(***************************************************************************)
(* probe holds what a specification below draws or records for its       *)
(* formulas and is no state of the program: the inputs and the local       *)
(* variables of a call, whether a key was pressed.                         *)
(*                                                                         *)
(* Positions an agent can be given: both coordinates multiples of half a   *)
(* cell, the cell of is_valid_move not a Wall.                             *)
(***************************************************************************)
HalfCoords == {k * (Scale \div 2) : k \in 2 .. (2 * (GRID_SIZE - 2) + 1)}

HalfPositions(g) == {p \in HalfCoords \X HalfCoords : is_valid_move(p[1], p[2], g)}

CellOf(p) == <<Round(p[1]), Round(p[2])>>

\* the cells an agent can be created at
FreeCells(g) == {c \in Interior : g[c[2]][c[1]] # Wall}

NoProbe ==
    [op |-> "init", start_pos |-> None, goal_pos |-> None, start |-> None,
     goal |-> None, came_from |-> <<>>, pops |-> <<>>, path |-> <<>>,
     keys |-> 0]

(***************************************************************************)
(* The search on its own: one hunter at a cell, one runner, any layout.    *)
(* Search is the path refresh of sync_paths, Collect the runner's          *)
(* collect_pellet.                                                         *)
(***************************************************************************)
InitSearch ==
    /\ \E inner \in InnerWalls : grid = create_grid(inner)
    /\ \E c \in FreeCells(grid) : ghosts = <<Ghost(c[1], c[2])>>
    /\ \E t \in HalfPositions(grid) :
          players = <<[Player("Player 1", 0, 0) EXCEPT !.position = t]>>
    /\ loser = NoLoser
    /\ ticks = 0
    /\ probe = NoProbe

Search ==
    /\ probe.op = "init"
    /\ ghosts' = sync_paths(players, ghosts, grid)
    /\ LET run == AStarRun(ghosts[1].position, players[1].position, grid)
       IN  probe' = [op |-> "a_star_search",
                     start_pos |-> ghosts[1].position,
                     goal_pos |-> players[1].position,
                     start |-> run.start, goal |-> run.goal,
                     came_from |-> run.came_from, pops |-> run.pops,
                     path |-> run.path, keys |-> 0]
    /\ UNCHANGED <<grid, players, loser, ticks>>

Collect ==
    /\ probe.op = "init"
    /\ LET r == collect_pellet(players[1], grid)
       IN  /\ players' = <<r.player>>
           /\ grid' = r.grid
    /\ probe' = [NoProbe EXCEPT !.op = "collect_pellet",
                                !.goal_pos = players[1].position]
    /\ UNCHANGED <<ghosts, loser, ticks>>

NextSearch == Search \/ Collect

SpecSearch == InitSearch /\ [][NextSearch]_vars

(***************************************************************************)
(* Breadth-first search over the non-Wall cells, for reference.            *)
(***************************************************************************)
Adjacent(a, b) == Abs(a[1] - b[1]) + Abs(a[2] - b[2]) = 1

IsWall(c, g) == c \notin Cells \/ g[c[2]][c[1]] = Wall

\* least number of steps from a cell of seen to goal, -1 when there is none;
\* seen holds the cells at most d steps away
RECURSIVE BFS(_, _, _, _)
BFS(seen, goal, g, d) ==
    IF goal \in seen THEN d
    ELSE LET more == {c \in Cells \ seen :
                        ~IsWall(c, g) /\ \E s \in seen : Adjacent(s, c)}
         IN  IF more = {} THEN -1 ELSE BFS(seen \cup more, goal, g, d + 1)

ShortestLength(start, goal, g) == BFS({start}, goal, g, 0)

Reachable(start, goal, g) == ShortestLength(start, goal, g) >= 0

Searched == probe.op = "a_star_search"

\* C1: when the goal is reachable from the start over non-Wall cells, the
\* path returned by a_star_search has as many cells as the shortest path
\* found by breadth-first search has steps.
C1_PathIsShortest ==
    (Searched /\ Reachable(probe.start, probe.goal, grid))
        => Len(probe.path) = ShortestLength(probe.start, probe.goal, grid)

\* a search whose shortest path goes around a wall
C1_Witness ==
    /\ Searched
    /\ Reachable(probe.start, probe.goal, grid)
    /\ Len(probe.path) = ShortestLength(probe.start, probe.goal, grid)
    /\ Len(probe.path) > heuristic(probe.start, probe.goal)

PathCells(path) == {path[i] : i \in 1 .. Len(path)}

\* C10: a non-empty path leaves out the snapped start, begins next to it,
\* ends with the snapped goal, steps between 4-adjacent cells and holds only
\* in-bounds non-Wall cells; the path is empty when the snapped start is the
\* snapped goal; a hunter and a runner at one position are reported captured.
C10_PathShape ==
    Searched =>
        /\ probe.path # <<>> =>
              /\ probe.start \notin PathCells(probe.path)
              /\ Adjacent(probe.start, probe.path[1])
              /\ probe.path[Len(probe.path)] = probe.goal
              /\ \A i \in 1 .. (Len(probe.path) - 1) :
                    Adjacent(probe.path[i], probe.path[i + 1])
              /\ \A c \in PathCells(probe.path) : ~IsWall(c, grid)
        /\ probe.start = probe.goal => probe.path = <<>>
        /\ probe.start_pos = probe.goal_pos =>
              check_collision(players, <<[position |-> probe.start_pos, path |-> <<>>]>>)
                  = players[1].name

\* the nearest integer to v, a tie going to the even one, by comparison of
\* the distances
NearestEven(v) ==
    CHOOSE k \in 0 .. GRID_SIZE :
        \A j \in (0 .. GRID_SIZE) \ {k} :
            \/ Abs(ToFP(k) - v) < Abs(ToFP(j) - v)
            \/ Abs(ToFP(k) - v) = Abs(ToFP(j) - v) /\ k % 2 = 0

\* the nearest integer to v >= 0, a tie going away from zero
NearestAway(v) == (2 * v + Scale) \div (2 * Scale)

IsTie(v) == v % Scale = Scale \div 2

\* the one Open cell of a grid that create_grid filled with pellets
OpenCells(g) == {c \in Cells : g[c[2]][c[1]] = Open}

\* C8, as amended: the start and the goal of a_star_search and the cell of
\* collect_pellet are the position with each axis rounded to the nearest
\* integer, a tie k + 0.5 going to the even one of k and k + 1 (k + 1 only
\* for odd k); an integral coordinate snaps to itself.
C8_SnapTiesToEven ==
    /\ Searched =>
          /\ probe.start = <<NearestEven(probe.start_pos[1]), NearestEven(probe.start_pos[2])>>
          /\ probe.goal = <<NearestEven(probe.goal_pos[1]), NearestEven(probe.goal_pos[2])>>
          /\ \A i \in 1 .. 2 :
                probe.goal_pos[i] % Scale = 0 => ToFP(probe.goal[i]) = probe.goal_pos[i]
    /\ probe.op = "collect_pellet" =>
          LET c == <<NearestEven(probe.goal_pos[1]), NearestEven(probe.goal_pos[2])>>
          IN  /\ OpenCells(grid) = IF IsWall(c, grid) THEN {} ELSE {c}
              /\ players[1].score = IF IsWall(c, grid) THEN 0 ELSE Reward

\* a search whose goal has a tie k + 0.5 with k even on the x axis, snapped
\* to k, and a collection at such a position
C8_Witness ==
    \/ /\ Searched
       /\ IsTie(probe.goal_pos[1])
       /\ (probe.goal_pos[1] \div Scale) % 2 = 0
       /\ ToFP(probe.goal[1]) < probe.goal_pos[1]
    \/ /\ probe.op = "collect_pellet"
       /\ IsTie(probe.goal_pos[1])
       /\ (probe.goal_pos[1] \div Scale) % 2 = 0
       /\ players[1].score = Reward
       /\ \E c \in OpenCells(grid) : ToFP(c[1]) < probe.goal_pos[1]

\* C8 as the claim has it: a tie k + 0.5 always snaps to k + 1.
C8_SnapTiesAwayFromZero ==
    /\ Searched =>
          /\ probe.start = <<NearestAway(probe.start_pos[1]), NearestAway(probe.start_pos[2])>>
          /\ probe.goal = <<NearestAway(probe.goal_pos[1]), NearestAway(probe.goal_pos[2])>>
    /\ probe.op = "collect_pellet" =>
          LET c == <<NearestAway(probe.goal_pos[1]), NearestAway(probe.goal_pos[2])>>
          IN  OpenCells(grid) = IF IsWall(c, grid) THEN {} ELSE {c}

\* the case of C9: the goal is at (x - 1, y - 1) of the start (x, y), and the
\* goal and both cells between them are not Wall
Diagonal ==
    /\ Searched
    /\ probe.goal = <<probe.start[1] - 1, probe.start[2] - 1>>
    /\ ~IsWall(probe.goal, grid)
    /\ ~IsWall(<<probe.start[1], probe.start[2] - 1>>, grid)
    /\ ~IsWall(<<probe.start[1] - 1, probe.start[2]>>, grid)

\* C9, as amended: among frontier entries of equal priority the one with the
\* lesser cell (lesser x, then lesser y) is expanded first, whatever the
\* order of insertion; for a goal at (x - 1, y - 1) the neighbour (x - 1, y),
\* inserted after (x, y - 1), is expanded first and is the predecessor of the
\* goal.
C9_TieBreakByCell ==
    Searched =>
        /\ \A i \in 1 .. Len(probe.pops) :
              \A f \in probe.pops[i].from :
                  LET e == probe.pops[i].entry
                  IN  /\ e[1] <= f[1]
                      /\ (e[1] = f[1] /\ e[2] # f[2]) => CellLess(e[2], f[2])
        /\ Diagonal =>
              /\ probe.pops[2].entry[2] = <<probe.start[1] - 1, probe.start[2]>>
              /\ probe.came_from[probe.goal] = <<probe.start[1] - 1, probe.start[2]>>
              /\ probe.path = <<<<probe.start[1] - 1, probe.start[2]>>, probe.goal>>

\* the diagonal case, where the entry expanded second was inserted after an
\* entry of the same priority
C9_Witness ==
    /\ Diagonal
    /\ \E f \in probe.pops[2].from :
          /\ f[1] = probe.pops[2].entry[1]
          /\ f[3] < probe.pops[2].entry[3]
    /\ probe.path = <<<<probe.start[1] - 1, probe.start[2]>>, probe.goal>>

\* C9 as the claim has it: among entries of equal priority the one inserted
\* first is expanded first, and (x, y - 1) is the predecessor of the goal.
C9_TieBreakByInsertion ==
    Searched =>
        /\ \A i \in 1 .. Len(probe.pops) :
              \A f \in probe.pops[i].from :
                  LET e == probe.pops[i].entry
                  IN  e[1] = f[1] => e[3] <= f[3]
        /\ Diagonal =>
              probe.came_from[probe.goal] = <<probe.start[1], probe.start[2] - 1>>

(***************************************************************************)
(* One runner on its own: any layout, any integral start cell.  KeyDown is *)
(* change_direction, Move is Player.move.                                  *)
(***************************************************************************)
InitRunner ==
    /\ \E inner \in InnerWalls : grid = create_grid(inner)
    /\ \E c \in FreeCells(grid) :
          /\ players = <<Player("Player 1", c[1], c[2])>>
          /\ probe = [NoProbe EXCEPT !.op = "runner", !.start_pos = CellPos(c)]
    /\ ghosts = <<>>
    /\ loser = NoLoser
    /\ ticks = 0

KeyDown(i, d) ==
    /\ loser = NoLoser
    /\ ticks < MaxTicks
    /\ players' = [players EXCEPT ![i].direction = DIRECTIONS[d]]
    /\ probe' = [probe EXCEPT !.keys = 1]
    /\ UNCHANGED <<grid, ghosts, loser, ticks>>

Move ==
    /\ ticks < MaxTicks
    /\ LET r == PlayerMove(players[1], grid)
       IN  /\ players' = <<r.player>>
           /\ grid' = r.grid
    /\ ticks' = ticks + 1
    /\ UNCHANGED <<ghosts, loser, probe>>

NextRunner == (\E d \in DirNames : KeyDown(1, d)) \/ Move

SpecRunner == InitRunner /\ [][NextRunner]_vars

\* the cell of a position with each axis rounded to the nearest integer, a
\* tie going away from zero
SnapAway(p) == <<NearestAway(p[1]), NearestAway(p[2])>>

IsMove == ticks' = ticks + 1

\* C3: Player.move accepts a move exactly when the snapped cell of the
\* candidate position (ties away from zero) is inside the grid and not a
\* Wall; a move that is not accepted leaves the runner's position and score
\* and the grid unchanged and keeps the direction.
C3_AcceptsIffSnappedCellFree ==
    [][IsMove =>
         LET cand == Candidate(players[1])
             free == cand[1] >= 0 /\ cand[2] >= 0 /\ ~IsWall(SnapAway(cand), grid)
         IN  /\ free => players'[1].position = cand
             /\ ~free => /\ players'[1] = players[1]
                         /\ grid' = grid]_vars

\* C4: a runner that starts at an integral cell (x, y) with intent RIGHT
\* and whose cell (x + 1, y) is a Collectible is at (x + 1, y) after two
\* ticks, that cell is Open and the score is 10.
C4_RightReachesNextCell ==
    LET c == <<Round(probe.start_pos[1]) + 1, Round(probe.start_pos[2])>>
    IN  (/\ probe.op = "runner" /\ probe.keys = 0 /\ ticks = 2
         /\ players[1].direction = DIRECTIONS.RIGHT
         /\ ~IsWall(c, grid))
            => /\ players[1].position = CellPos(c)
               /\ grid[c[2]][c[1]] = Open
               /\ players[1].score = Reward

(***************************************************************************)
(* The round of main: two runners at (1, 1) and (GRID_SIZE - 2,            *)
(* GRID_SIZE - 2), two hunters at (GRID_SIZE / 2, GRID_SIZE / 2) and two   *)
(* cells to its right (one cell where the scaled grid has no room for      *)
(* two).  Tick is one pass of the main loop after the events (lines        *)
(* 372-386), KeyDown one key event, Retry the restart after                *)
(* game_over_menu.                                                         *)
(***************************************************************************)
StartPlayers ==
    <<Player("Player 1", 1, 1), Player("Player 2", GRID_SIZE - 2, GRID_SIZE - 2)>>

Min(a, b) == IF a < b THEN a ELSE b

StartGhosts ==
    <<Ghost(GRID_SIZE \div 2, GRID_SIZE \div 2),
      Ghost(Min(GRID_SIZE \div 2 + 2, GRID_SIZE - 2), GRID_SIZE \div 2)>>

StartCells ==
    {CellOf(StartPlayers[i].position) : i \in 1 .. 2}
        \cup {CellOf(StartGhosts[k].position) : k \in 1 .. 2}

InitGame ==
    /\ \E inner \in InnerWalls :
          /\ inner \cap StartCells = {}
          /\ grid = create_grid(inner)
    /\ ghosts = StartGhosts
    /\ probe = [NoProbe EXCEPT !.op = "round"]
    /\ players = StartPlayers
    /\ loser = NoLoser
    /\ ticks = 0

\* a tick that refreshes the paths before the players move
TickPathsFirst ==
    /\ loser = NoLoser
    /\ ticks < MaxTicks
    /\ LET synced == sync_paths(players, ghosts, grid)
           m == MovePlayers(players, grid, 1)
           chased == MoveGhosts(synced)
       IN  /\ players' = m.players
           /\ grid' = m.grid
           /\ ghosts' = chased
           /\ loser' = check_collision(m.players, chased)
    /\ ticks' = ticks + 1
    /\ UNCHANGED probe

Tick ==
    /\ loser = NoLoser
    /\ ticks < MaxTicks
    /\ LET m == MovePlayers(players, grid, 1)
           chased == MoveGhosts(sync_paths(m.players, ghosts, m.grid))
       IN  /\ players' = m.players
           /\ grid' = m.grid
           /\ ghosts' = chased
           /\ loser' = check_collision(m.players, chased)
    /\ ticks' = ticks + 1
    /\ UNCHANGED probe

Retry ==
    /\ loser # NoLoser
    /\ grid' = [y \in Idx |-> [x \in Idx |->
                  IF grid[y][x] = Wall THEN Wall ELSE Pellet]]
    /\ players' = StartPlayers
    /\ ghosts' = StartGhosts
    /\ loser' = NoLoser
    /\ ticks' = 0
    /\ probe' = [probe EXCEPT !.keys = 0]

NextGame ==
    \/ \E i \in 1 .. 2 : \E d \in DirNames : KeyDown(i, d)
    \/ Tick
    \/ Retry

SpecGame == InitGame /\ [][NextGame]_vars

InRound == loser = NoLoser /\ ticks' = ticks + 1

\* C7: in a round every border cell stays a Wall, no cell becomes a Wall or
\* a Collectible, a cell changes only from Collectible to Open, and a runner
\* that comes to a cell already Open gains nothing and leaves the grid as it
\* is: its score grows, by the reward, only when its cell was a Collectible.
C7_GridOnlyLosesPellets ==
    [][InRound =>
         /\ \A c \in Cells : Border(c) => grid'[c[2]][c[1]] = Wall
         /\ \A c \in Cells :
               grid'[c[2]][c[1]] # grid[c[2]][c[1]]
                   => grid[c[2]][c[1]] = Pellet /\ grid'[c[2]][c[1]] = Open
         /\ \A i \in 1 .. Len(players) :
               LET c == CellOf(players'[i].position)
               IN  /\ grid[c[2]][c[1]] = Open
                       => /\ players'[i].score = players[i].score
                          /\ grid'[c[2]][c[1]] = Open
                   /\ players'[i].score # players[i].score
                       => /\ players'[i].score = players[i].score + Reward
                          /\ grid[c[2]][c[1]] = Pellet
                          /\ grid'[c[2]][c[1]] = Open]_vars

\* the first runner has come over the cell (2, 1) twice, at (1.5, 1) and at
\* (2, 1): it was rewarded once
C7_Witness ==
    /\ probe.op = "round"
    /\ ticks = 2
    /\ players[1].position = <<ToFP(2), ToFP(1)>>
    /\ players[1].score = Reward
    /\ grid[1][2] = Open
    /\ grid[1][1] = Pellet

\* C2: when the goal (the snapped cell of the nearest runner) cannot be
\* reached from the hunter's snapped cell, the hunter's refreshed path is
\* empty and the hunter does not change position in that tick.
C2_UnreachableGivesEmptyPath ==
    [][InRound =>
         \A k \in 1 .. Len(ghosts) :
             LET target == players'[Closest(ghosts[k], players')].position
             IN  ~Reachable(CellOf(ghosts[k].position), CellOf(target), grid)
                     => /\ ghosts'[k].path = <<>>
                        /\ ghosts'[k].position = ghosts[k].position]_vars

(***************************************************************************)
(* A hunter following one path with no refresh: it starts at a cell with   *)
(* the path a_star_search gives to another cell; Follow is Ghost.move.     *)
(* probe.path keeps the path it started with.                              *)
(***************************************************************************)
InitFollow ==
    /\ \E inner \in InnerWalls : grid = create_grid(inner)
    /\ \E c \in FreeCells(grid), t \in FreeCells(grid) :
          LET path == a_star_search(CellPos(c), CellPos(t), grid)
          IN  /\ ghosts = <<[Ghost(c[1], c[2]) EXCEPT !.path = path]>>
              /\ probe = [NoProbe EXCEPT !.op = "follow", !.start_pos = CellPos(c),
                                         !.path = path]
    /\ players = <<>>
    /\ loser = NoLoser
    /\ ticks = 0

Follow ==
    /\ ticks < MaxCalls
    /\ ghosts' = MoveGhosts(ghosts)
    /\ ticks' = ticks + 1
    /\ UNCHANGED <<grid, players, loser, probe>>

NextFollow == Follow

SpecFollow == InitFollow /\ [][NextFollow]_vars

\* ceil(n / s) + n for the speed s of the hunter
CallBound(n) == (ToFP(n) + GhostSpeed - 1) \div GhostSpeed + n

\* C5: a hunter that starts on a cell with a path of N successive 4-adjacent
\* waypoints has emptied it after ceil(N / s) + N calls of Ghost.move (11
\* calls for each waypoint at the speed 0.1).
C5_PathConsumedInBound ==
    (probe.op = "follow" /\ ticks >= CallBound(Len(probe.path)))
        => ghosts[1].path = <<>>

Sign(v) == IF v > 0 THEN 1 ELSE IF v < 0 THEN -1 ELSE 0

\* C12: Ghost.move leaves a hunter with an empty path where it is; with a
\* waypoint it either arrives (the position becomes the waypoint, which is
\* removed) or moves each coordinate by exactly its speed toward the
\* waypoint, a coordinate that is level with the waypoint staying as it is.
C12_StepIsSpeed ==
    [][(probe.op = "follow" /\ ticks' = ticks + 1) =>
         LET ghost == ghosts[1]
             after == ghosts'[1]
         IN  IF ghost.path = <<>> THEN after = ghost
             ELSE LET next_pos == CellPos(Head(ghost.path))
                  IN  IF after.path = ghost.path
                      THEN \A a \in 1 .. 2 :
                               after.position[a] = ghost.position[a]
                                   + Sign(next_pos[a] - ghost.position[a]) * GhostSpeed
                      ELSE /\ after.position = next_pos
                           /\ after.path = Tail(ghost.path)]_vars

(***************************************************************************)
(* check_collision on its own: two runners on half cells, two hunters at   *)
(* positions around the cell (2, 2), on both sides of the distance 0.5.    *)
(***************************************************************************)
RunnerSpots == {<<ToFP(2), ToFP(2)>>, <<ToFP(2) + PlayerSpeed, ToFP(2)>>,
                <<ToFP(2), ToFP(3)>>}

Offsets == {0, 300, 400, 499, 500, 501}

HunterSpots == {<<ToFP(2) + dx, ToFP(2) + dy>> : dx \in Offsets, dy \in Offsets}

InitCollision ==
    /\ grid = create_grid({})
    /\ \E p1 \in RunnerSpots, p2 \in RunnerSpots :
          players = <<[Player("Player 1", 0, 0) EXCEPT !.position = p1],
                      [Player("Player 2", 0, 0) EXCEPT !.position = p2]>>
    /\ \E g1 \in HunterSpots, g2 \in HunterSpots :
          ghosts = <<[position |-> g1, path |-> <<>>],
                     [position |-> g2, path |-> <<>>]>>
    /\ loser = NoLoser
    /\ ticks = 0
    /\ probe = NoProbe

Check ==
    /\ probe.op = "init"
    /\ loser' = check_collision(players, ghosts)
    /\ probe' = [probe EXCEPT !.op = "check_collision"]
    /\ UNCHANGED <<grid, players, ghosts, ticks>>

NextCollision == Check

SpecCollision == InitCollision /\ [][NextCollision]_vars

\* four times the square of the distance of two positions, to compare with
\* the square of Scale (the distance 0.5 gives Scale * Scale)
Dist2x4(p, q) == 4 * ((p[1] - q[1]) * (p[1] - q[1]) + (p[2] - q[2]) * (p[2] - q[2]))

Below(i, k) == Dist2x4(players[i].position, ghosts[k].position) < Scale * Scale

\* C6: check_collision reports a capture exactly when some (runner, hunter)
\* pair is at a distance strictly below 0.5; a pair at exactly 0.5 is not
\* reported; the runner reported belongs to a pair below the threshold.
C6_CaptureIffBelowThreshold ==
    probe.op = "check_collision" =>
        /\ loser # NoLoser <=> \E i \in 1 .. 2 : \E k \in 1 .. 2 : Below(i, k)
        /\ loser # NoLoser =>
              \E i \in 1 .. 2 : players[i].name = loser /\ \E k \in 1 .. 2 : Below(i, k)

\* the first runner has a hunter at exactly 0.5 and none nearer, the second
\* one a hunter below 0.5: the second runner is reported
C6_Witness ==
    /\ probe.op = "check_collision"
    /\ \E k \in 1 .. 2 : Dist2x4(players[1].position, ghosts[k].position) = Scale * Scale
    /\ \A k \in 1 .. 2 : ~Below(1, k)
    /\ \E k \in 1 .. 2 : Below(2, k)
    /\ loser = "Player 2"

(***************************************************************************)
(* sync_paths on its own: the two runners of main, the first one anywhere  *)
(* and the second one at its start, and one hunter at a cell or 0.3 of a   *)
(* cell beside it, with a waypoint left from an earlier tick (its own      *)
(* cell).  probe keeps the hunter's position and that old path.            *)
(***************************************************************************)
SyncOffsets == {0, 300}

HunterStarts(g) ==
    {<<ToFP(c[1]) + dx, ToFP(c[2])>> : c \in FreeCells(g), dx \in SyncOffsets}

InitSync ==
    /\ \E inner \in InnerWalls :
          /\ <<GRID_SIZE - 2, GRID_SIZE - 2>> \notin inner
          /\ grid = create_grid(inner)
    /\ \E p \in HalfPositions(grid) :
          players = <<[Player("Player 1", 1, 1) EXCEPT !.position = p],
                      Player("Player 2", GRID_SIZE - 2, GRID_SIZE - 2)>>
    /\ \E h \in HunterStarts(grid) :
          /\ ghosts = <<[position |-> h, path |-> <<CellOf(h)>>]>>
          /\ probe = [NoProbe EXCEPT !.op = "stale", !.start_pos = h,
                                     !.path = <<CellOf(h)>>]
    /\ loser = NoLoser
    /\ ticks = 0

Sync ==
    /\ probe.op = "stale"
    /\ ghosts' = sync_paths(players, ghosts, grid)
    /\ probe' = [probe EXCEPT !.op = "sync_paths"]
    /\ UNCHANGED <<grid, players, loser, ticks>>

NextSync == Sync

SpecSync == InitSync /\ [][NextSync]_vars

\* the Manhattan distance of two positions
Manhattan(p, q) == Abs(p[1] - q[1]) + Abs(p[2] - q[2])

\* of two runners, the one nearer to the position p, the first one on a tie
NearestOfTwo(p, ps) ==
    IF Manhattan(p, ps[1].position) <= Manhattan(p, ps[2].position)
    THEN 1 ELSE 2

\* C11: sync_paths leaves each hunter where it is and gives it the path
\* a_star_search computes from its position to the runner with the smallest
\* Manhattan distance to that position (the first runner on a tie): a
\* non-empty path ends with that runner's snapped cell, the path is empty
\* exactly when the hunter's snapped cell is that cell (also for a hunter
\* that held a waypoint): nothing of the path held before is kept.
C11_PathRefreshed ==
    probe.op = "sync_paths" =>
        \A k \in 1 .. Len(ghosts) :
            LET target == players[NearestOfTwo(probe.start_pos, players)].position
                path == ghosts[k].path
            IN  /\ ghosts[k].position = probe.start_pos
                /\ path = a_star_search(probe.start_pos, target, grid)
                /\ path # <<>> => path[Len(path)] = CellOf(target)
                /\ path = <<>> <=> CellOf(probe.start_pos) = CellOf(target)

\* a hunter beside its cell, as far from the first runner as from the
\* second one, whose new path ends at the first runner's cell and does not
\* hold the old waypoint
C11_Witness ==
    /\ probe.op = "sync_paths"
    /\ probe.start_pos[1] % Scale # 0
    /\ Manhattan(probe.start_pos, players[1].position)
          = Manhattan(probe.start_pos, players[2].position)
    /\ CellOf(players[1].position) # CellOf(players[2].position)
    /\ ghosts[1].path # <<>>
    /\ ghosts[1].path[Len(ghosts[1].path)] = CellOf(players[1].position)
    /\ Head(probe.path) \notin PathCells(ghosts[1].path)

\* C13: a tick moves every runner (to its candidate position exactly when
\* that is a valid move), then gives every hunter the path from its position
\* to the nearest runner as the runners stand after their moves, then moves
\* every hunter along that path, then tests the capture on the positions
\* after both; the state after a capture changes only by the start of a new
\* round.
C13_TickOrder ==
    [][/\ InRound =>
            /\ \A i \in 1 .. Len(players) :
                  LET new == Candidate(players[i])
                  IN  players'[i].position =
                          IF is_valid_move(new[1], new[2], grid) THEN new
                          ELSE players[i].position
            /\ \A k \in 1 .. Len(ghosts) :
                  LET target == players'[NearestOfTwo(ghosts[k].position, players')].position
                      path == a_star_search(ghosts[k].position, target, grid')
                  IN  ghosts'[k] = GhostMove([ghosts[k] EXCEPT !.path = path])
            /\ loser' # NoLoser
                  <=> \E i \in 1 .. Len(players) : \E k \in 1 .. Len(ghosts) :
                          Near(players'[i].position, ghosts'[k].position)
       /\ loser # NoLoser =>
            /\ loser' = NoLoser
            /\ ticks' = 0
            /\ players' = StartPlayers
            /\ ghosts' = StartGhosts]_vars

\* the second runner went down twice and met the second hunter, the first
\* hunter on its way to it: the capture of the second tick
C13_Witness ==
    /\ probe.op = "round"
    /\ ticks = 2
    /\ loser = "Player 2"
    /\ players[2].position = <<ToFP(GRID_SIZE - 2), ToFP(GRID_SIZE - 2) - 2 * PlayerSpeed>>
    /\ ghosts[1].position # StartGhosts[1].position
    /\ ghosts[2].position = StartGhosts[2].position

(***************************************************************************)
(* One hunter chasing one runner that does not move: the runner holds a   *)
(* direction in which Player.move rejects its move in every tick.          *)
(* ChaseTick is the pass of the game loop of Tick; the loop has no last    *)
(* pass, so ticks counts the passes around MaxTicks, and the loop runs a   *)
(* pass whenever it can (the while loop of main): weak fairness of the     *)
(* pass.                                                                   *)
(* probe keeps the positions the two started at.                           *)
(***************************************************************************)
Stationary(player, g) ==
    LET new == Candidate(player)
    IN  ~is_valid_move(new[1], new[2], g)

InitChase ==
    /\ \E inner \in InnerWalls : grid = create_grid(inner)
    /\ \E p \in HalfPositions(grid), d \in DirNames :
          LET player == [Player("Player 1", 1, 1) EXCEPT !.position = p,
                                                        !.direction = DIRECTIONS[d]]
          IN  /\ Stationary(player, grid)
              /\ players = <<player>>
    /\ \E c \in FreeCells(grid) : ghosts = <<Ghost(c[1], c[2])>>
    /\ probe = [NoProbe EXCEPT !.op = "chase",
                               !.start_pos = ghosts[1].position,
                               !.goal_pos = players[1].position]
    /\ loser = NoLoser
    /\ ticks = 0

\* the players, the grid, the ghosts and the loser after one pass
Pass(ps, gs, g) ==
    LET m == MovePlayers(ps, g, 1)
        chased == MoveGhosts(sync_paths(m.players, gs, m.grid))
    IN  [players |-> m.players, grid |-> m.grid, ghosts |-> chased,
         loser |-> check_collision(m.players, chased)]

ChaseTick ==
    /\ loser = NoLoser
    /\ \E after \in {Pass(players, ghosts, grid)} :
          /\ players' = after.players
          /\ grid' = after.grid
          /\ ghosts' = after.ghosts
          /\ loser' = after.loser
    /\ ticks' = (ticks % MaxTicks) + 1
    /\ UNCHANGED probe

NextChase == ChaseTick

\* what decides that ChaseTick can run: the round is on, and the pass is
\* counted; every step of ChaseTick is such a step and no other step is
LoopPass == loser = NoLoser /\ ticks' = (ticks % MaxTicks) + 1

SpecChase == InitChase /\ [][NextChase]_vars /\ WF_ticks(LoopPass)

OnCell(p) == p[1] % Scale = 0 /\ p[2] % Scale = 0

\* C14: with one hunter and one runner that stays at an integral cell the
\* hunter's start cell can reach, the ticks lead to a capture, and after no
\* tick is the hunter left with an empty path and no capture (a distance of
\* 0.5 or more to the runner).
C14_StationaryRunnerCaught ==
    (OnCell(players[1].position)
       /\ Reachable(CellOf(ghosts[1].position), CellOf(players[1].position), grid))
        => /\ <>(loser # NoLoser)
           /\ [](ticks >= 1 /\ ghosts[1].path = <<>> => loser # NoLoser)

\* C15: the cell a hunter's position snaps to (the start of its search) is
\* in bounds and is not a Wall: no hunter moves into a Wall.
C15_HunterOffWalls ==
    \A k \in 1 .. Len(ghosts) :
        LET c == CellOf(ghosts[k].position)
        IN  c \in Cells /\ ~IsWall(c, grid)

RECURSIVE SumScores(_, _)
SumScores(ps, i) == IF i > Len(ps) THEN 0 ELSE ps[i].score + SumScores(ps, i + 1)

\* C16: in a round a runner's score changes only by the reward added, and
\* only in a tick in which its move is accepted; in every state of a round
\* the scores of all runners add up to the reward times the number of cells
\* that went from Collectible to Open since the round began (the Open cells:
\* create_grid leaves none), also when two runners come to one cell in one
\* tick.
C16_ScoresCountPellets ==
    /\ [](probe.op = "round"
            => SumScores(players, 1) = Reward * Cardinality(OpenCells(grid)))
    /\ [][(probe.op = "round" /\ loser = NoLoser) =>
             \A i \in 1 .. Len(players) :
                 /\ players'[i].score \in {players[i].score, players[i].score + Reward}
                 /\ players'[i].score # players[i].score
                       => LET new == Candidate(players[i])
                          IN  /\ ticks' = ticks + 1
                              /\ is_valid_move(new[1], new[2], grid)
                              /\ players'[i].position = new]_vars

\* both runners came to the cell (2, 2) in the second tick, the first one
\* from (1.5, 1) and the second one from (2.5, 3): the first one has its
\* pellet
C16_Witness ==
    /\ probe.op = "round"
    /\ ticks = 2
    /\ players[1].position = <<ToFP(1) + PlayerSpeed, ToFP(1) + PlayerSpeed>>
    /\ players[2].position = <<ToFP(2) + PlayerSpeed, ToFP(2) + PlayerSpeed>>
    /\ grid[2][2] = Open
    /\ players[1].score = 2 * Reward
    /\ players[2].score = Reward

====
